---- MODULE Spec2Model ----
(***************************************************************************)
(* Model of the bug provider of VaRA-Tool-Suite:                           *)
(*   varats-core/varats/provider/bug/bug.py                                *)
(*   varats-core/varats/provider/bug/bug_provider.py                       *)
(*                                                                         *)
(* The state is the environment the queries read (the commit history of    *)
(* the project repository, the issue events of the tracker, the cache of   *)
(* issue events) and the observation of the last query.  Every query is    *)
(* one action; Python exceptions are part of a query's outcome.            *)
(***************************************************************************)
EXTENDS Integers, Sequences, FiniteSets, TLC

VARIABLES commits, head, tracker, cache, provider, lastOp

vars == <<commits, head, tracker, cache, provider, lastOp>>

(***************************************************************************)
(* Bounds of the model.                                                    *)
(***************************************************************************)
MaxCommits == 2
MaxEvents == 2

(***************************************************************************)
(* Python values.  None of an Optional[str] is NoneStr; an Optional[int]   *)
(* is a sequence: <<>> is None, <<n>> is the integer n.  A str that is     *)
(* inspected character by character is a sequence of one-character         *)
(* strings, the line break being NL.                                       *)
(***************************************************************************)
NoneStr == "<None>"
NoneInt == <<>>
NL == "NL"
NoError == "none"

Str_Fix_NL == <<"F", "i", "x", " ", "a", NL>>
Str_add_NL_fix == <<"a", "d", "d", NL, "f", "i", "x">>
Str_prefixed == <<"p", "r", "e", "f", "i", "x", "e", "d">>

Messages == {Str_Fix_NL, Str_add_NL_fix, Str_prefixed}

\* commit.hex of the i-th commit created in the repository
Hex(i) == CASE i = 1 -> "c1" [] i = 2 -> "c2" [] i = 3 -> "c3" [] OTHER -> "c4"

\* the identifiers the queries are asked about and the events carry: "c2"
\* names no commit as long as the repository holds a single commit
QueryIds == {"c1", "c2"}

\* the issue events the tracker can report (github.IssueEvent: event,
\* commit_id, issue.labels[*].name, issue.number)
EventUniverse ==
    { [event |-> "closed", commit_id |-> "c2", labels |-> <<"ui", "bug">>, number |-> 0],
      [event |-> "closed", commit_id |-> "", labels |-> <<"bug">>, number |-> 7],
      [event |-> "reopened", commit_id |-> NoneStr, labels |-> <<"Bug">>, number |-> 8] }

(***************************************************************************)
(* str helpers                                                             *)
(***************************************************************************)
\* str.lower() on the characters the messages use
Lower(c) ==
    CASE c = "F" -> "f" [] c = "I" -> "i" [] c = "X" -> "x"
      [] c = "E" -> "e" [] c = "D" -> "d" [] c = "S" -> "s"
      [] OTHER -> c

\* str.index(ch): the 0-based position of the first ch, -1 for ValueError
StrIndex(s, ch) ==
    IF \E i \in 1..Len(s) : s[i] = ch
    THEN (CHOOSE i \in 1..Len(s) : s[i] = ch /\ \A j \in 1..(i - 1) : s[j] # ch) - 1
    ELSE -1

\* s[0:n]
StrPrefix(s, n) == SubSeq(s, 1, n)

\* the literal pat occurs in s at 1-based position i, ignoring case
MatchesAt(s, pat, i) ==
    /\ i + Len(pat) - 1 <= Len(s)
    /\ \A k \in 1..Len(pat) : Lower(s[i + k - 1]) = Lower(pat[k])

\* re.search(r'fix|fixed|fixes', s, re.IGNORECASE) is not None
ReSearchFix(s) ==
    \E i \in 1..Len(s) :
        \/ MatchesAt(s, <<"f", "i", "x">>, i)
        \/ MatchesAt(s, <<"f", "i", "x", "e", "d">>, i)
        \/ MatchesAt(s, <<"f", "i", "x", "e", "s">>, i)

(***************************************************************************)
(* Detectors                                                               *)
(***************************************************************************)
\* _has_closed_a_bug comparing the label names without regard to case
HasClosedABug_any_case(ev) ==
    IF ev.event # "closed" \/ ev.commit_id = NoneStr
    THEN FALSE
    ELSE \E i \in 1..Len(ev.labels) : ev.labels[i] \in {"bug", "Bug"}

\* _has_closed_a_bug(issue_event)
HasClosedABug(ev) ==
    IF ev.event # "closed" \/ ev.commit_id = NoneStr
    THEN FALSE
    ELSE \E i \in 1..Len(ev.labels) : ev.labels[i] = "bug"

\* _is_closing_message searching the whole message instead of its first line
IsClosingMessage_whole_message(msg) ==
    LET idx == StrIndex(msg, NL)
    IN IF idx < 0
       THEN [err |-> "ValueError", val |-> FALSE]
       ELSE [err |-> NoError, val |-> ReSearchFix(msg)]

\* _is_closing_message(commit_message): [err, val]
IsClosingMessage(msg) ==
    LET idx == StrIndex(msg, NL)
    IN IF idx < 0
       THEN [err |-> "ValueError", val |-> FALSE]
       ELSE [err |-> NoError, val |-> ReSearchFix(StrPrefix(msg, idx))]

(***************************************************************************)
(* Bug values                                                              *)
(***************************************************************************)
\* RawBug(fixing_commit, introducing_commits, issue_id)
RawBug(fixing_commit, introducing_commits, issue_id) ==
    [cls |-> "RawBug", fixing_commit |-> fixing_commit,
     introducing_commits |-> introducing_commits, issue_id |-> issue_id]

\* PygitBug(fixing_commit, introducing_commits, issue_id); a pygit2.Commit is
\* the record [hex |-> ...], equal to another commit iff the ids are equal
PygitBug(fixing_commit, introducing_commits, issue_id) ==
    [cls |-> "PygitBug", fixing_commit |-> fixing_commit,
     introducing_commits |-> introducing_commits, issue_id |-> issue_id]

\* __eq__ comparing the introducing commits as sets instead of lists
BugEq_unordered(a, b) ==
    IF a.cls = b.cls
    THEN /\ a.fixing_commit = b.fixing_commit
         /\ {a.introducing_commits[i] : i \in 1..Len(a.introducing_commits)} =
                {b.introducing_commits[i] : i \in 1..Len(b.introducing_commits)}
         /\ a.issue_id = b.issue_id
    ELSE FALSE

\* RawBug.__eq__ / PygitBug.__eq__
BugEq(a, b) ==
    IF a.cls = b.cls
    THEN /\ a.fixing_commit = b.fixing_commit
         /\ a.introducing_commits = b.introducing_commits
         /\ a.issue_id = b.issue_id
    ELSE FALSE

\* hash(t) of a tuple whose elements have the given Python types: a list is
\* unhashable, so hashing a tuple that holds one raises TypeError
TupleHash(types) ==
    IF \E i \in 1..Len(types) : types[i] = "list"
    THEN "TypeError"
    ELSE NoError

\* RawBug.__hash__ / PygitBug.__hash__: the error raised, NoError if none
BugHash(b) ==
    IF b.cls = "RawBug"
    THEN TupleHash(<<"str", "list", "Optional[int]">>)
    ELSE TupleHash(<<"pygit2.Commit", "list", "Optional[int]">>)

\* a Python set under construction: [err, bugs], bugs in insertion order
EmptySet == [err |-> NoError, bugs |-> <<>>]

\* set.add(b): hashes b, then keeps it unless an equal element is present
SetAdd(acc, b) ==
    IF BugHash(b) # NoError
    THEN [err |-> BugHash(b), bugs |-> <<>>]
    ELSE IF \E i \in 1..Len(acc.bugs) : BugEq(acc.bugs[i], b)
         THEN acc
         ELSE [err |-> NoError, bugs |-> Append(acc.bugs, b)]

\* the members of a (frozen) set
Members(bugs) == {bugs[i] : i \in 1..Len(bugs)}

(***************************************************************************)
(* Collaborators: repository, tracker, cache                               *)
(***************************************************************************)
\* the pygit2.Commit of the i-th commit
CommitObj(cs, i) == [hex |-> Hex(i), message |-> cs[i].message]

\* project_repo.revparse_single(id): KeyError unless id names a commit
RevparseSingle(cs, id) ==
    IF \E i \in 1..Len(cs) : Hex(i) = id
    THEN [err |-> NoError, commit |-> [hex |-> id]]
    ELSE [err |-> "KeyError", commit |-> [hex |-> id]]

\* project_repo.walk(head, GIT_SORT_TIME): head and its ancestors, newest first
Walk(cs, h) ==
    LET up[i \in 0..Len(cs)] == IF i = 0 THEN <<>> ELSE <<i>> \o up[cs[i].parent]
    IN up[h]

\* get_cached_github_object_list(cache_file_name, load_issue_events): the
\* cached list on a hit; on a miss the tracker is fetched and, when the
\* fetch succeeds, the list is stored; a failed fetch yields None
GetCachedGithubObjectList(c, trk, avail) ==
    IF c.populated
    THEN [none |-> FALSE, list |-> c.events, cache |-> c, source |-> "hit"]
    ELSE IF avail
         THEN [none |-> FALSE, list |-> trk,
               cache |-> [populated |-> TRUE, events |-> trk], source |-> "fetched"]
         ELSE [none |-> TRUE, list |-> <<>>, cache |-> c, source |-> "failed"]

\* _get_all_issue_events calling load_issue_events itself on every call
\* instead of going through get_cached_github_object_list
GetAllIssueEvents_uncached(c, trk, avail) ==
    IF avail
    THEN [events |-> trk, cache |-> [populated |-> TRUE, events |-> trk],
          source |-> "fetched"]
    ELSE [events |-> <<>>, cache |-> c, source |-> "failed"]

\* _get_all_issue_events(project_name)
GetAllIssueEvents(c, trk, avail) ==
    LET got == GetCachedGithubObjectList(c, trk, avail)
    IN IF ~got.none /\ Len(got.list) > 0
       THEN [events |-> got.list, cache |-> got.cache, source |-> got.source]
       ELSE [events |-> <<>>, cache |-> got.cache, source |-> got.source]

(***************************************************************************)
(* Bug resolver                                                            *)
(***************************************************************************)
\* what a filter function returns: an exception, None, or a bug
Raise(e) == [err |-> e, bug |-> <<>>]
ReturnNone == [err |-> NoError, bug |-> <<>>]
Return(b) == [err |-> NoError, bug |-> <<b>>]

\* _search_corresponding_pygit_bug(closing_commit, project_repo, issue_number)
SearchCorrespondingPygitBug(closing_commit, cs, issue_number) ==
    LET closing_pycommit == RevparseSingle(cs, closing_commit)
    IN IF closing_pycommit.err # NoError
       THEN Raise(closing_pycommit.err)
       ELSE Return(PygitBug(closing_pycommit.commit, <<>>, issue_number))

\* _search_corresponding_raw_bug testing `if issue_number:` before attaching
\* the number, which loses the issue number 0
SearchCorrespondingRawBug_truthy(closing_commit, cs, issue_number) ==
    Return(RawBug(closing_commit, <<>>,
                  IF issue_number = <<0>> THEN NoneInt ELSE issue_number))

\* _search_corresponding_raw_bug(closing_commit, project_repo, issue_number)
SearchCorrespondingRawBug(closing_commit, cs, issue_number) ==
    Return(RawBug(closing_commit, <<>>, issue_number))

\* truth value of an Optional[str]
Truthy(s) == s # NoneStr /\ s # ""

(***************************************************************************)
(* Reconciliation engine                                                   *)
(***************************************************************************)
\* the guard of every issue filter function:
\* _has_closed_a_bug(issue_event) and issue_event.commit_id
IssueGuard(ev) == HasClosedABug(ev) /\ Truthy(ev.commit_id)

\* find_all_pygit_bugs.accept_all_issue_pybugs
AcceptAllIssuePybugs(ev) ==
    IF IssueGuard(ev)
    THEN SearchCorrespondingPygitBug(ev.commit_id, commits, <<ev.number>>)
    ELSE ReturnNone

\* find_all_pygit_bugs.accept_all_commit_pybugs
AcceptAllCommitPybugs(commit) ==
    LET closing == IsClosingMessage(commit.message)
    IN IF closing.err # NoError THEN Raise(closing.err)
       ELSE IF closing.val
       THEN SearchCorrespondingPygitBug(commit.hex, commits, NoneInt)
       ELSE ReturnNone

\* accept_all_issue_rawbugs without the test of the commit id
AcceptAllIssueRawbugs_unguarded(ev) ==
    IF HasClosedABug(ev)
    THEN SearchCorrespondingRawBug(ev.commit_id, commits, <<ev.number>>)
    ELSE ReturnNone

\* find_all_raw_bugs.accept_all_issue_rawbugs
AcceptAllIssueRawbugs(ev) ==
    IF IssueGuard(ev)
    THEN SearchCorrespondingRawBug(ev.commit_id, commits, <<ev.number>>)
    ELSE ReturnNone

\* find_all_raw_bugs.accept_all_commit_rawbugs
AcceptAllCommitRawbugs(commit) ==
    LET closing == IsClosingMessage(commit.message)
    IN IF closing.err # NoError THEN Raise(closing.err)
       ELSE IF closing.val
       THEN SearchCorrespondingRawBug(commit.hex, commits, NoneInt)
       ELSE ReturnNone

\* if pybug.fixing_commit.hex == fixing_commit: return pybug
PybugWithCertainFix(found, fixing_commit) ==
    IF found.err # NoError THEN found
    ELSE IF found.bug[1].fixing_commit.hex = fixing_commit THEN found
    ELSE ReturnNone

\* find_pygit_bug_by_fix.accept_issue_pybug_with_certain_fix
AcceptIssuePybugWithCertainFix(ev, fixing_commit) ==
    IF IssueGuard(ev)
    THEN PybugWithCertainFix(
             SearchCorrespondingPygitBug(ev.commit_id, commits, <<ev.number>>),
             fixing_commit)
    ELSE ReturnNone

\* find_pygit_bug_by_fix.accept_commit_pybug_with_certain_fix
AcceptCommitPybugWithCertainFix(commit, fixing_commit) ==
    LET closing == IsClosingMessage(commit.message)
    IN IF closing.err # NoError THEN Raise(closing.err)
       ELSE IF closing.val
       THEN PybugWithCertainFix(
                SearchCorrespondingPygitBug(commit.hex, commits, NoneInt),
                fixing_commit)
       ELSE ReturnNone

\* if rawbug.fixing_commit == fixing_commit: return rawbug
RawbugWithCertainFix(found, fixing_commit) ==
    IF found.err # NoError THEN found
    ELSE IF found.bug[1].fixing_commit = fixing_commit THEN found
    ELSE ReturnNone

\* find_raw_bug_by_fix.accept_issue_rawbug_with_certain_fix
AcceptIssueRawbugWithCertainFix(ev, fixing_commit) ==
    IF IssueGuard(ev)
    THEN RawbugWithCertainFix(
             SearchCorrespondingRawBug(ev.commit_id, commits, <<ev.number>>),
             fixing_commit)
    ELSE ReturnNone

\* find_raw_bug_by_fix.accept_commit_rawbug_with_certain_fix
AcceptCommitRawbugWithCertainFix(commit, fixing_commit) ==
    LET closing == IsClosingMessage(commit.message)
    IN IF closing.err # NoError THEN Raise(closing.err)
       ELSE IF closing.val
       THEN RawbugWithCertainFix(
                SearchCorrespondingRawBug(commit.hex, commits, NoneInt),
                fixing_commit)
       ELSE ReturnNone

\* pygit2.Commit == str: objects of different types are never equal
CommitEqualsStr(commit, id) == FALSE

\* for introducing_pycommit in pybug.introducing_commits:
\*     if introducing_pycommit.hex == introducing_commit: return pybug
PybugIntroducedByHex(found, introducing_commit) ==
    IF found.err # NoError THEN found
    ELSE IF \E k \in 1..Len(found.bug[1].introducing_commits) :
                found.bug[1].introducing_commits[k].hex = introducing_commit
    THEN found
    ELSE ReturnNone

\* for introducing_pycommit in pybug.introducing_commits:
\*     if introducing_pycommit == introducing_commit: return pybug
PybugIntroducedByCommit(found, introducing_commit) ==
    IF found.err # NoError THEN found
    ELSE IF \E k \in 1..Len(found.bug[1].introducing_commits) :
                CommitEqualsStr(found.bug[1].introducing_commits[k], introducing_commit)
    THEN found
    ELSE ReturnNone

\* find_pygit_bug_by_introduction.accept_issue_pybug_with_certain_introduction
AcceptIssuePybugWithCertainIntroduction(ev, introducing_commit) ==
    IF IssueGuard(ev)
    THEN PybugIntroducedByHex(
             SearchCorrespondingPygitBug(ev.commit_id, commits, <<ev.number>>),
             introducing_commit)
    ELSE ReturnNone

\* find_pygit_bug_by_introduction.accept_commit_pybug_with_certain_introduction
AcceptCommitPybugWithCertainIntroduction(commit, introducing_commit) ==
    LET closing == IsClosingMessage(commit.message)
    IN IF closing.err # NoError THEN Raise(closing.err)
       ELSE IF closing.val
       THEN PybugIntroducedByCommit(
                SearchCorrespondingPygitBug(commit.hex, commits, NoneInt),
                introducing_commit)
       ELSE ReturnNone

\* for introducing_id in rawbug.introducing_commits:
\*     if introducing_id == introducing_commit: return rawbug
RawbugIntroducedBy(found, introducing_commit) ==
    IF found.err # NoError THEN found
    ELSE IF \E k \in 1..Len(found.bug[1].introducing_commits) :
                found.bug[1].introducing_commits[k] = introducing_commit
    THEN found
    ELSE ReturnNone

\* find_raw_bug_by_introduction.accept_issue_rawbug_with_certain_introduction
AcceptIssueRawbugWithCertainIntroduction(ev, introducing_commit) ==
    IF IssueGuard(ev)
    THEN RawbugIntroducedBy(
             SearchCorrespondingRawBug(ev.commit_id, commits, <<ev.number>>),
             introducing_commit)
    ELSE ReturnNone

\* find_raw_bug_by_introduction.accept_commit_rawbug_with_certain_introduction
AcceptCommitRawbugWithCertainIntroduction(commit, introducing_commit) ==
    LET closing == IsClosingMessage(commit.message)
    IN IF closing.err # NoError THEN Raise(closing.err)
       ELSE IF closing.val
       THEN RawbugIntroducedBy(
                SearchCorrespondingRawBug(commit.hex, commits, NoneInt),
                introducing_commit)
       ELSE ReturnNone

\* a filter function with the variable of the enclosing query it uses
\* (fixing_commit or introducing_commit)
Closure(fn, arg) == [fn |-> fn, arg |-> arg]

\* issue_filter_function(issue_event) / commit_filter_function(commit)
Call(f, x) ==
    CASE f.fn = "AcceptAllIssuePybugs" -> AcceptAllIssuePybugs(x)
      [] f.fn = "AcceptAllCommitPybugs" -> AcceptAllCommitPybugs(x)
      [] f.fn = "AcceptAllIssueRawbugs" -> AcceptAllIssueRawbugs(x)
      [] f.fn = "AcceptAllCommitRawbugs" -> AcceptAllCommitRawbugs(x)
      [] f.fn = "AcceptIssuePybugWithCertainFix" -> AcceptIssuePybugWithCertainFix(x, f.arg)
      [] f.fn = "AcceptCommitPybugWithCertainFix" -> AcceptCommitPybugWithCertainFix(x, f.arg)
      [] f.fn = "AcceptIssueRawbugWithCertainFix" -> AcceptIssueRawbugWithCertainFix(x, f.arg)
      [] f.fn = "AcceptCommitRawbugWithCertainFix" -> AcceptCommitRawbugWithCertainFix(x, f.arg)
      [] f.fn = "AcceptIssuePybugWithCertainIntroduction" -> AcceptIssuePybugWithCertainIntroduction(x, f.arg)
      [] f.fn = "AcceptCommitPybugWithCertainIntroduction" -> AcceptCommitPybugWithCertainIntroduction(x, f.arg)
      [] f.fn = "AcceptIssueRawbugWithCertainIntroduction" -> AcceptIssueRawbugWithCertainIntroduction(x, f.arg)
      [] f.fn = "AcceptCommitRawbugWithCertainIntroduction" -> AcceptCommitRawbugWithCertainIntroduction(x, f.arg)

\* one iteration of the loops of _filter_all_*_bugs: call the filter
\* function, propagate its exception, add the bug it returns (a bug object
\* is always true) to the result set
LoopStep(acc, found) ==
    IF acc.err # NoError THEN acc
    ELSE IF found.err # NoError THEN [err |-> found.err, bugs |-> <<>>]
    ELSE IF Len(found.bug) = 0 THEN acc
    ELSE SetAdd(acc, found.bug[1])

\* for issue_event in issue_events: ...
IssueLoop(acc0, evs, issue_filter_function) ==
    LET loop[i \in 0..Len(evs)] ==
            IF i = 0 THEN acc0
            ELSE LoopStep(loop[i - 1], Call(issue_filter_function, evs[i]))
    IN loop[Len(evs)]

\* for commit in project_repo.walk(most_recent_commit.id, GIT_SORT_TIME): ...
CommitLoop(acc0, cs, h, commit_filter_function) ==
    LET walk == Walk(cs, h)
        loop[i \in 0..Len(walk)] ==
            IF i = 0 THEN acc0
            ELSE LoopStep(loop[i - 1],
                          Call(commit_filter_function, CommitObj(cs, walk[i])))
    IN loop[Len(walk)]

\* `return resulting_bugs`: the set itself is handed out
Outcome_set(acc, c, source) ==
    [err |-> acc.err, bugs |-> acc.bugs, cache |-> c, source |-> source,
     kind |-> "set"]

\* the outcome of a query: the exception raised (NoError if none), the
\* members of the returned frozenset, the cache it leaves, and where the
\* issue events came from ("hit", "fetched", "failed"; "none": not asked for)
Outcome(acc, c, source) ==
    [err |-> acc.err, bugs |-> acc.bugs, cache |-> c, source |-> source,
     kind |-> "frozenset"]

\* _filter_all_pygit_bugs(project_name, issue_filter_function, commit_filter_function)
FilterAllPygitBugs(avail, issue_filter_function, commit_filter_function) ==
    LET got == GetAllIssueEvents(cache, tracker, avail)
        resulting_pygit_bugs ==
            CommitLoop(IssueLoop(EmptySet, got.events, issue_filter_function),
                       commits, head, commit_filter_function)
    IN Outcome(resulting_pygit_bugs, got.cache, got.source)

\* _filter_all_raw_bugs(project_name, issue_filter_function, commit_filter_function)
FilterAllRawBugs(avail, issue_filter_function, commit_filter_function) ==
    LET got == GetAllIssueEvents(cache, tracker, avail)
        resulting_raw_bugs ==
            CommitLoop(IssueLoop(EmptySet, got.events, issue_filter_function),
                       commits, head, commit_filter_function)
    IN Outcome(resulting_raw_bugs, got.cache, got.source)

\* find_all_pygit_bugs(project_name)
find_all_pygit_bugs(avail) ==
    FilterAllPygitBugs(avail, Closure("AcceptAllIssuePybugs", NoneStr),
        Closure("AcceptAllCommitPybugs", NoneStr))

\* find_all_raw_bugs(project_name)
find_all_raw_bugs(avail) ==
    FilterAllRawBugs(avail, Closure("AcceptAllIssueRawbugs", NoneStr),
        Closure("AcceptAllCommitRawbugs", NoneStr))

\* find_pygit_bug_by_fix(project_name, fixing_commit)
find_pygit_bug_by_fix(avail, fixing_commit) ==
    FilterAllPygitBugs(avail, Closure("AcceptIssuePybugWithCertainFix", fixing_commit),
        Closure("AcceptCommitPybugWithCertainFix", fixing_commit))

\* find_raw_bug_by_fix(project_name, fixing_commit)
find_raw_bug_by_fix(avail, fixing_commit) ==
    FilterAllRawBugs(avail, Closure("AcceptIssueRawbugWithCertainFix", fixing_commit),
        Closure("AcceptCommitRawbugWithCertainFix", fixing_commit))

\* find_pygit_bug_by_introduction(project_name, introducing_commit)
find_pygit_bug_by_introduction(avail, introducing_commit) ==
    FilterAllPygitBugs(avail, Closure("AcceptIssuePybugWithCertainIntroduction", introducing_commit),
        Closure("AcceptCommitPybugWithCertainIntroduction", introducing_commit))

\* find_raw_bug_by_introduction(project_name, introducing_commit)
find_raw_bug_by_introduction(avail, introducing_commit) ==
    FilterAllRawBugs(avail, Closure("AcceptIssueRawbugWithCertainIntroduction", introducing_commit),
        Closure("AcceptCommitRawbugWithCertainIntroduction", introducing_commit))

(***************************************************************************)
(* Functions of the module bug that bug_provider.py calls and bug.py does  *)
(* not define: the tracker pass and the history pass of each query, each   *)
(* on its own                                                              *)
(***************************************************************************)
\* the outcome of a pass that does not ask for the issue events
NotAsked(acc) == Outcome(acc, cache, "none")

\* the tracker pass: the issue events of the project, filtered
IssueBugs(avail, issue_filter_function) ==
    LET got == GetAllIssueEvents(cache, tracker, avail)
    IN Outcome(IssueLoop(EmptySet, got.events, issue_filter_function),
               got.cache, got.source)

\* the history pass: the commits reachable from HEAD, filtered
CommitMessageBugs(commit_filter_function) ==
    NotAsked(CommitLoop(EmptySet, commits, head, commit_filter_function))

find_all_issue_pygit_bugs(avail) == IssueBugs(avail, Closure("AcceptAllIssuePybugs", NoneStr))

find_all_commit_message_pygit_bugs ==
    CommitMessageBugs(Closure("AcceptAllCommitPybugs", NoneStr))

find_all_issue_raw_bugs(avail) == IssueBugs(avail, Closure("AcceptAllIssueRawbugs", NoneStr))

find_all_commit_message_raw_bugs ==
    CommitMessageBugs(Closure("AcceptAllCommitRawbugs", NoneStr))

find_issue_pygit_bugs_by_fix(avail, fixing_commit) ==
    IssueBugs(avail, Closure("AcceptIssuePybugWithCertainFix", fixing_commit))

find_commit_message_pygit_bugs_by_fix(fixing_commit) ==
    CommitMessageBugs(Closure("AcceptCommitPybugWithCertainFix", fixing_commit))

find_issue_raw_bugs_by_fix(avail, fixing_commit) ==
    IssueBugs(avail, Closure("AcceptIssueRawbugWithCertainFix", fixing_commit))

find_commit_message_raw_bugs_by_fix(fixing_commit) ==
    CommitMessageBugs(Closure("AcceptCommitRawbugWithCertainFix", fixing_commit))

find_issue_pygit_bugs_by_introduction(avail, introducing_commit) ==
    IssueBugs(avail, Closure("AcceptIssuePybugWithCertainIntroduction", introducing_commit))

find_commit_message_pygit_bugs_by_introduction(introducing_commit) ==
    CommitMessageBugs(Closure("AcceptCommitPybugWithCertainIntroduction", introducing_commit))

find_issue_raw_bugs_by_introduction(avail, introducing_commit) ==
    IssueBugs(avail, Closure("AcceptIssueRawbugWithCertainIntroduction", introducing_commit))

find_commit_message_raw_bugs_by_introduction(introducing_commit) ==
    CommitMessageBugs(Closure("AcceptCommitRawbugWithCertainIntroduction", introducing_commit))

(***************************************************************************)
(* Projects and providers                                                  *)
(***************************************************************************)
\* a remote URL is a sequence of tokens; the pattern's literals are tokens
GithubPrefix == "https://github.com/"
DotGit == ".git"

Url_github == <<GithubPrefix, "owner", "/", "repo", DotGit>>
Url_gitlab == <<"https://gitlab.com/", "owner", "/", "repo", DotGit>>
Url_svn == <<"svn://host/", "owner", "/", "repo">>

\* the projects: NAME, whether the primary source has a fetch method (is
\* git-backed), and the remote of the primary source
Projects ==
    { [NAME |-> "gzip", git |-> TRUE, remote |-> Url_github],
      [NAME |-> "glibc", git |-> TRUE, remote |-> Url_gitlab],
      [NAME |-> "svnproj", git |-> FALSE, remote |-> Url_svn] }

ProjectNames == {p.NAME : p \in Projects}
ProjectNamed(name) == CHOOSE p \in Projects : p.NAME = name

\* an Optional[str] made of tokens
NoName == [none |-> TRUE, str |-> <<>>]
Name(str) == [none |-> FALSE, str |-> str]
TruthyName(n) == ~n.none /\ Len(n.str) > 0

\* GITHUB_URL_PATTERN.match(url): https://github\.com/(.*)/(.*)\.git matched
\* at the start of url, both groups greedy
GithubUrlPatternMatch(url) ==
    LET cands == {ij \in (2..Len(url)) \X (2..Len(url)) :
                     /\ url[1] = GithubPrefix
                     /\ url[ij[1]] = "/"
                     /\ url[ij[2]] = DotGit
                     /\ ij[1] < ij[2]}
        i == CHOOSE a \in {ij[1] : ij \in cands} :
                 \A b \in {ij[1] : ij \in cands} : b <= a
        j == CHOOSE a \in {ij[2] : ij \in {c \in cands : c[1] = i}} :
                 \A b \in {ij[2] : ij \in {c \in cands : c[1] = i}} : b <= a
    IN IF cands = {}
       THEN [matched |-> FALSE, group1 |-> <<>>, group2 |-> <<>>]
       ELSE [matched |-> TRUE, group1 |-> SubSeq(url, 2, i - 1),
             group2 |-> SubSeq(url, i + 1, j - 1)]

\* BugProvider(project, github_project_name)
BugProvider(project, github_project_name) ==
    [cls |-> "BugProvider", project |-> project.NAME,
     github_project_name |-> github_project_name]

\* BugDefaultProvider(project): BugProvider.__init__ is skipped
BugDefaultProvider(project) ==
    [cls |-> "BugDefaultProvider", project |-> project.NAME,
     github_project_name |-> NoName]

NoProvider == [cls |-> "None", project |-> "", github_project_name |-> NoName]

\* create_provider_for_project giving no provider to a project whose remote
\* is not a GitHub URL
create_provider_for_project_github_only(project) ==
    IF project.git
    THEN LET match == GithubUrlPatternMatch(project.remote)
         IN IF match.matched
            THEN BugProvider(project, Name(match.group1 \o <<"/">> \o match.group2))
            ELSE NoProvider
    ELSE NoProvider

\* BugProvider.create_provider_for_project(project)
create_provider_for_project(project) ==
    IF project.git
    THEN LET match == GithubUrlPatternMatch(project.remote)
         IN IF match.matched
            THEN BugProvider(project, Name(match.group1 \o <<"/">> \o match.group2))
            ELSE BugProvider(project, NoName)
    ELSE NoProvider

\* BugProvider.create_default_provider(project)
create_default_provider(project) == BugDefaultProvider(project)

\* Provider.get_provider_for_project(project): the default provider stands
\* in where no provider can be created
get_provider_for_project(project) ==
    IF create_provider_for_project(project).cls = "None"
    THEN create_default_provider(project)
    ELSE create_provider_for_project(project)

\* the statement `resulting_bugs.union(other)`: set.union returns a new set
\* and leaves resulting_bugs as it was
UnionStatement(resulting_bugs, other) == resulting_bugs

\* ProviderBody without the test of self.__github_project_name: the issue
\* bugs are asked for whatever the name is
ProviderBody_unguarded(self, issue_bugs, commit_message_bugs) ==
    LET first == issue_bugs
        second == IF first.err # NoError
                  THEN Outcome(first, cache, "none")
                  ELSE commit_message_bugs
        resulting_bugs == <<>>
    IN [err |-> second.err, bugs |-> resulting_bugs, cache |-> first.cache,
        source |-> first.source, kind |-> "frozenset"]

\* the body shared by the six methods of BugProvider:
\*     resulting_bugs = set()
\*     if self.__github_project_name:
\*         resulting_bugs.union(<issue bugs of the github project>)
\*     resulting_bugs.union(<commit message bugs of the project>)
\*     return frozenset(resulting_bugs)
ProviderBody(self, issue_bugs, commit_message_bugs) ==
    LET first == IF TruthyName(self.github_project_name)
                 THEN issue_bugs
                 ELSE NotAsked(EmptySet)
        second == IF first.err # NoError THEN NotAsked(first) ELSE commit_message_bugs
        resulting_bugs == UnionStatement(UnionStatement(<<>>, first.bugs), second.bugs)
    IN [err |-> second.err, bugs |-> resulting_bugs, cache |-> first.cache,
        source |-> first.source, kind |-> "frozenset"]

\* BugProvider.find_all_pygit_bugs(self)
BugProvider_find_all_pygit_bugs(self, avail) ==
    ProviderBody(self, find_all_issue_pygit_bugs(avail),
                 find_all_commit_message_pygit_bugs)

\* BugProvider.find_all_raw_bugs(self)
BugProvider_find_all_raw_bugs(self, avail) ==
    ProviderBody(self, find_all_issue_raw_bugs(avail),
                 find_all_commit_message_raw_bugs)

\* BugProvider.find_pygit_bug_by_fix(self, fixing_commit)
BugProvider_find_pygit_bug_by_fix(self, avail, fixing_commit) ==
    ProviderBody(self, find_issue_pygit_bugs_by_fix(avail, fixing_commit),
                 find_commit_message_pygit_bugs_by_fix(fixing_commit))

\* BugProvider.find_raw_bug_by_fix(self, fixing_commit)
BugProvider_find_raw_bug_by_fix(self, avail, fixing_commit) ==
    ProviderBody(self, find_issue_raw_bugs_by_fix(avail, fixing_commit),
                 find_commit_message_raw_bugs_by_fix(fixing_commit))

\* BugProvider.find_pygit_bug_by_introduction(self, introducing_commit)
BugProvider_find_pygit_bug_by_introduction(self, avail, introducing_commit) ==
    ProviderBody(self, find_issue_pygit_bugs_by_introduction(avail, introducing_commit),
                 find_commit_message_pygit_bugs_by_introduction(introducing_commit))

\* BugProvider.find_raw_bug_by_introduction(self, introducing_commit)
BugProvider_find_raw_bug_by_introduction(self, avail, introducing_commit) ==
    ProviderBody(self, find_issue_raw_bugs_by_introduction(avail, introducing_commit),
                 find_commit_message_raw_bugs_by_introduction(introducing_commit))

\* return frozenset()
ReturnFrozenset == NotAsked(EmptySet)

\* BugDefaultProvider.find_all_pygit_bugs(self)
BugDefaultProvider_find_all_pygit_bugs(self, avail) == ReturnFrozenset

\* BugDefaultProvider without its own find_all_raw_bugs: the inherited method
\* reads self.__github_project_name, which BugDefaultProvider.__init__ never set
BugDefaultProvider_find_all_raw_bugs_inherited(self, avail) ==
    Outcome([err |-> "AttributeError", bugs |-> <<>>], cache, "none")

\* BugDefaultProvider.find_all_raw_bugs(self)
BugDefaultProvider_find_all_raw_bugs(self, avail) == ReturnFrozenset

\* BugDefaultProvider.find_pygit_bug_by_fix(self, fixing_commit)
BugDefaultProvider_find_pygit_bug_by_fix(self, avail, fixing_commit) == ReturnFrozenset

\* BugDefaultProvider.find_raw_bug_by_fix(self, fixing_commit)
BugDefaultProvider_find_raw_bug_by_fix(self, avail, fixing_commit) == ReturnFrozenset

\* BugDefaultProvider.find_pygit_bug_by_introduction(self, introducing_commit)
BugDefaultProvider_find_pygit_bug_by_introduction(self, avail, introducing_commit) ==
    ReturnFrozenset

\* BugDefaultProvider.find_raw_bug_by_introduction(self, introducing_commit)
BugDefaultProvider_find_raw_bug_by_introduction(self, avail, introducing_commit) ==
    ReturnFrozenset

(***************************************************************************)
(* State machine                                                           *)
(***************************************************************************)
\* no query has run since the environment last changed
NoOp == [caller |-> "none", op |-> "none", arg |-> NoneStr, err |-> NoError,
         bugs |-> <<>>, source |-> "none", kind |-> "none", mutation |-> "none"]

\* the record of a query and its outcome
Observed(caller, op, arg, out) ==
    [caller |-> caller, op |-> op, arg |-> arg, err |-> out.err,
     bugs |-> IF out.err = NoError THEN out.bugs ELSE <<>>, source |-> out.source,
     kind |-> IF out.err = NoError THEN out.kind ELSE "none", mutation |-> "none"]

\* the tracker answers (TRUE) or is unavailable (FALSE); asked on a miss only
Availability == IF cache.populated THEN {TRUE} ELSE BOOLEAN

\* a repository with its first commit, a tracker without events, an empty cache
InitEnvironment ==
    /\ commits \in {<<[message |-> m, parent |-> 0]>> : m \in Messages}
    /\ head = 1
    /\ tracker = <<>>
    /\ cache = [populated |-> FALSE, events |-> <<>>]
    /\ lastOp = NoOp

\* the functions of the module bug are called directly: no provider
Init ==
    /\ InitEnvironment
    /\ provider = NoProvider

\* a commit is created on top of HEAD
Commit(m) ==
    /\ Len(commits) < MaxCommits
    /\ commits' = Append(commits, [message |-> m, parent |-> head])
    /\ head' = Len(commits) + 1
    /\ lastOp' = NoOp
    /\ UNCHANGED <<tracker, cache, provider>>

\* HEAD is moved to another commit of the repository
Checkout(i) ==
    /\ i # head
    /\ head' = i
    /\ lastOp' = NoOp
    /\ UNCHANGED <<commits, tracker, cache, provider>>

\* the tracker records a further issue event
IssueEvent(ev) ==
    /\ Len(tracker) < MaxEvents
    /\ tracker' = Append(tracker, ev)
    /\ lastOp' = NoOp
    /\ UNCHANGED <<commits, head, cache, provider>>

\* a query of the module bug runs to its end
Run(caller, op, arg, out) ==
    /\ lastOp' = Observed(caller, op, arg, out)
    /\ cache' = out.cache
    /\ UNCHANGED <<commits, head, tracker, provider>>

\* the caller of a query tries to change the result it was given:
\* result.add(x) for a hashable x; a frozenset has no method add
CallerAdd ==
    /\ lastOp.op # "none"
    /\ lastOp.err = NoError
    /\ lastOp.mutation = "none"
    /\ lastOp' = IF lastOp.kind = "frozenset"
                  THEN [lastOp EXCEPT !.mutation = "AttributeError"]
                  ELSE [lastOp EXCEPT !.mutation = "added", !.bugs = Append(@, "x")]
    /\ UNCHANGED <<commits, head, tracker, cache, provider>>

FindAllPygitBugs ==
    \E avail \in Availability :
        Run("bug", "find_all_pygit_bugs", NoneStr, find_all_pygit_bugs(avail))

FindAllRawBugs ==
    \E avail \in Availability :
        Run("bug", "find_all_raw_bugs", NoneStr, find_all_raw_bugs(avail))

FindPygitBugByFix ==
    \E avail \in Availability, id \in QueryIds :
        Run("bug", "find_pygit_bug_by_fix", id, find_pygit_bug_by_fix(avail, id))

FindRawBugByFix ==
    \E avail \in Availability, id \in QueryIds :
        Run("bug", "find_raw_bug_by_fix", id, find_raw_bug_by_fix(avail, id))

FindPygitBugByIntroduction ==
    \E avail \in Availability, id \in QueryIds :
        Run("bug", "find_pygit_bug_by_introduction", id,
            find_pygit_bug_by_introduction(avail, id))

FindRawBugByIntroduction ==
    \E avail \in Availability, id \in QueryIds :
        Run("bug", "find_raw_bug_by_introduction", id,
            find_raw_bug_by_introduction(avail, id))

Next ==
    \/ \E m \in Messages : Commit(m)
    \/ \E i \in 1..Len(commits) : Checkout(i)
    \/ \E ev \in EventUniverse : IssueEvent(ev)
    \/ FindAllPygitBugs
    \/ FindAllRawBugs
    \/ FindPygitBugByFix
    \/ FindRawBugByFix
    \/ FindPygitBugByIntroduction
    \/ FindRawBugByIntroduction
    \/ CallerAdd

Spec == Init /\ [][Next]_vars

(***************************************************************************)
(* The queries of the provider of a project                                *)
(***************************************************************************)
IsDefault(self) == self.cls = "BugDefaultProvider"

ProviderFindAllPygitBugs ==
    \E avail \in Availability :
        Run(provider.project, "find_all_pygit_bugs", NoneStr,
            IF IsDefault(provider)
            THEN BugDefaultProvider_find_all_pygit_bugs(provider, avail)
            ELSE BugProvider_find_all_pygit_bugs(provider, avail))

ProviderFindAllRawBugs ==
    \E avail \in Availability :
        Run(provider.project, "find_all_raw_bugs", NoneStr,
            IF IsDefault(provider)
            THEN BugDefaultProvider_find_all_raw_bugs(provider, avail)
            ELSE BugProvider_find_all_raw_bugs(provider, avail))

ProviderFindPygitBugByFix ==
    \E avail \in Availability, id \in QueryIds :
        Run(provider.project, "find_pygit_bug_by_fix", id,
            IF IsDefault(provider)
            THEN BugDefaultProvider_find_pygit_bug_by_fix(provider, avail, id)
            ELSE BugProvider_find_pygit_bug_by_fix(provider, avail, id))

ProviderFindRawBugByFix ==
    \E avail \in Availability, id \in QueryIds :
        Run(provider.project, "find_raw_bug_by_fix", id,
            IF IsDefault(provider)
            THEN BugDefaultProvider_find_raw_bug_by_fix(provider, avail, id)
            ELSE BugProvider_find_raw_bug_by_fix(provider, avail, id))

ProviderFindPygitBugByIntroduction ==
    \E avail \in Availability, id \in QueryIds :
        Run(provider.project, "find_pygit_bug_by_introduction", id,
            IF IsDefault(provider)
            THEN BugDefaultProvider_find_pygit_bug_by_introduction(provider, avail, id)
            ELSE BugProvider_find_pygit_bug_by_introduction(provider, avail, id))

ProviderFindRawBugByIntroduction ==
    \E avail \in Availability, id \in QueryIds :
        Run(provider.project, "find_raw_bug_by_introduction", id,
            IF IsDefault(provider)
            THEN BugDefaultProvider_find_raw_bug_by_introduction(provider, avail, id)
            ELSE BugProvider_find_raw_bug_by_introduction(provider, avail, id))

\* the provider of one of the projects has been obtained
ProviderInit ==
    /\ InitEnvironment
    /\ provider \in {get_provider_for_project(project) : project \in Projects}

ProviderNext ==
    \/ \E m \in Messages : Commit(m)
    \/ \E i \in 1..Len(commits) : Checkout(i)
    \/ \E ev \in EventUniverse : IssueEvent(ev)
    \/ ProviderFindAllPygitBugs
    \/ ProviderFindAllRawBugs
    \/ ProviderFindPygitBugByFix
    \/ ProviderFindRawBugByFix
    \/ ProviderFindPygitBugByIntroduction
    \/ ProviderFindRawBugByIntroduction
    \/ CallerAdd

ProviderSpec == ProviderInit /\ [][ProviderNext]_vars

(***************************************************************************)
(* The values and detectors on their own: each function is applied to      *)
(* arguments drawn from bounded sets                                       *)
(***************************************************************************)
MaxIntroducing == 2
MaxMessageLen == 4

\* the sequences over a set of at most n elements
SeqsUpTo(S, n) == UNION {[1..k -> S] : k \in 0..n}

\* Optional[int] issue ids
IssueIds == {NoneInt, <<0>>, <<7>>}

\* RawBug and PygitBug values: any fixing commit, any list of introducing
\* commits (the empty one included), any issue id
RawBugValues ==
    {RawBug(f, intro, id) :
        f \in QueryIds, intro \in SeqsUpTo(QueryIds, MaxIntroducing), id \in IssueIds}

PygitBugValues ==
    {PygitBug([hex |-> f], intro, id) :
        f \in QueryIds,
        intro \in SeqsUpTo({[hex |-> c] : c \in QueryIds}, MaxIntroducing),
        id \in IssueIds}

BugClasses == {"RawBug", "PygitBug"}
BugValuesOf(cls) == IF cls = "RawBug" THEN RawBugValues ELSE PygitBugValues

\* github.IssueEvent values
EventValues ==
    [event : {"closed", "reopened"},
     commit_id : {NoneStr, "", "c1", "c2"},
     labels : {<<>>, <<"bug">>, <<"Bug">>, <<"bugfix">>, <<"debug">>, <<"ui", "bug">>},
     number : {0, 7}]

\* commit messages: the short ones over a few characters, the empty one
\* included, and the messages of the commits
MessageValues == SeqsUpTo({"f", "I", "x", "a", NL}, MaxMessageLen) \cup Messages

\* bug.introducing_commits: the property hands out the list the bug holds
IntroducingCommits(b) == [of |-> "self", list |-> b.introducing_commits]

\* bug.introducing_commits.append(x): the bug afterwards
AfterAppend(b, x) ==
    IF IntroducingCommits(b).of = "self"
    THEN [b EXCEPT !.introducing_commits = Append(IntroducingCommits(b).list, x)]
    ELSE b

\* a change reference of the representation of b
ChangeRef(b, id) == IF b.cls = "RawBug" THEN id ELSE [hex |-> id]

\* project names, as sequences of path components and separators
ProjectNameValues == {<<"gzip">>, <<"owner", "/", "repo">>, <<"other", "/", "repo">>}

\* get_local_project_git_path(project_name): the directory of the project's
\* repository below the directory of all repositories
GetLocalProjectGitPath(project_name) == <<"tmp", "/">> \o project_name

\* Path.name: the final component of the path
PathName(path) ==
    LET seps == {i \in 1..Len(path) : path[i] = "/"}
        last == IF seps = {} THEN 0 ELSE CHOOSE i \in seps : \A j \in seps : j <= i
    IN SubSeq(path, last + 1, Len(path))

\* str.replace(old, new)
StrReplace(str, old, new) == [i \in 1..Len(str) |-> IF str[i] = old THEN new ELSE str[i]]

\* _get_all_issue_events: cache_file_name
CacheFileName(project_name) ==
    StrReplace(PathName(GetLocalProjectGitPath(project_name)), "/", "_")
        \o <<"_issues_events">>

\* a function about to be applied to its arguments
Pending(op, arg) ==
    [caller |-> "bug", op |-> "none", pending |-> op, arg |-> arg, err |-> NoError,
     bugs |-> <<>>, source |-> "none"]

\* the record of a function applied to its arguments: the exception raised
\* (NoError if none) and the value returned
Applied(op, arg, err, val) ==
    [caller |-> "bug", op |-> op, arg |-> arg, err |-> err, val |-> val,
     bugs |-> <<>>, source |-> "none"]

\* the arguments are chosen
UnitInit ==
    /\ commits = <<[message |-> Str_Fix_NL, parent |-> 0]>>
    /\ head = 1
    /\ tracker = <<>>
    /\ cache = [populated |-> FALSE, events |-> <<>>]
    /\ provider = NoProvider
    /\ \/ \E project \in Projects :
              lastOp = Pending("create_provider_for_project", project.NAME)
       \/ \E ca \in BugClasses, cb \in BugClasses :
              \E a \in BugValuesOf(ca), b \in BugValuesOf(cb) :
                  lastOp = Pending("__eq__", <<a, b>>)
       \/ \E ca \in BugClasses :
              \E a \in BugValuesOf(ca) : lastOp = Pending("__hash__", <<a>>)
       \/ \E ca \in BugClasses :
              \E a \in BugValuesOf(ca) : lastOp = Pending("set.add", <<a>>)
       \/ \E ev \in EventValues : lastOp = Pending("_has_closed_a_bug", ev)
       \/ \E msg \in MessageValues : lastOp = Pending("_is_closing_message", msg)
       \/ \E ca \in BugClasses :
              \E a \in BugValuesOf(ca) :
                  lastOp = Pending("introducing_commits.append", <<a>>)
       \/ \E id \in QueryIds, n \in IssueIds :
              \/ lastOp = Pending("_search_corresponding_raw_bug", <<id, n>>)
              \/ lastOp = Pending("_search_corresponding_pygit_bug", <<id, n>>)
       \/ \E ev \in EventValues : lastOp = Pending("accept_all_issue_rawbugs", ev)
       \/ \E msg \in Messages :
              lastOp = Pending("accept_all_commit_rawbugs", [hex |-> "c1", message |-> msg])
       \/ \E b \in PygitBugValues, id \in QueryIds :
              \/ lastOp = Pending("accept_issue_pybug_with_certain_introduction", <<b, id>>)
              \/ lastOp = Pending("accept_commit_pybug_with_certain_introduction", <<b, id>>)
       \/ \E name \in ProjectNameValues : lastOp = Pending("cache_file_name", name)

IsPending(op) == lastOp.op = "none" /\ lastOp.pending = op

\* BugProvider.create_provider_for_project(project)
ApplyCreateProviderForProject ==
    /\ IsPending("create_provider_for_project")
    /\ provider' = create_provider_for_project(ProjectNamed(lastOp.arg))
    /\ lastOp' = Applied("create_provider_for_project", lastOp.arg, NoError, TRUE)
    /\ UNCHANGED <<commits, head, tracker, cache>>

\* a == b
ApplyEq ==
    /\ IsPending("__eq__")
    /\ lastOp' = Applied("__eq__", lastOp.arg, NoError,
                          BugEq(lastOp.arg[1], lastOp.arg[2]))
    /\ UNCHANGED <<commits, head, tracker, cache, provider>>

\* hash(a)
ApplyHash ==
    /\ IsPending("__hash__")
    /\ lastOp' = Applied("__hash__", lastOp.arg, BugHash(lastOp.arg[1]), FALSE)
    /\ UNCHANGED <<commits, head, tracker, cache, provider>>

\* resulting_bugs = set(); resulting_bugs.add(a)
ApplySetAdd ==
    /\ IsPending("set.add")
    /\ lastOp' = Applied("set.add", lastOp.arg, SetAdd(EmptySet, lastOp.arg[1]).err,
                          Len(SetAdd(EmptySet, lastOp.arg[1]).bugs) = 1)
    /\ UNCHANGED <<commits, head, tracker, cache, provider>>

\* _has_closed_a_bug(issue_event)
ApplyHasClosedABug ==
    /\ IsPending("_has_closed_a_bug")
    /\ lastOp' = Applied("_has_closed_a_bug", lastOp.arg, NoError,
                          HasClosedABug(lastOp.arg))
    /\ UNCHANGED <<commits, head, tracker, cache, provider>>

\* _is_closing_message(commit_message)
ApplyIsClosingMessage ==
    /\ IsPending("_is_closing_message")
    /\ lastOp' = Applied("_is_closing_message", lastOp.arg,
                          IsClosingMessage(lastOp.arg).err,
                          IsClosingMessage(lastOp.arg).val)
    /\ UNCHANGED <<commits, head, tracker, cache, provider>>

\* Applied for a function that returns a bug or None
AppliedFilter(op, arg, found) == Applied(op, arg, found.err, found.bug)

\* bug.introducing_commits.append(x), x a change of the repository
ApplyIntroducingCommitsAppend ==
    /\ IsPending("introducing_commits.append")
    /\ lastOp' = Applied("introducing_commits.append", lastOp.arg, NoError,
                          AfterAppend(lastOp.arg[1], ChangeRef(lastOp.arg[1], "c1")))
    /\ UNCHANGED <<commits, head, tracker, cache, provider>>

\* _search_corresponding_raw_bug(closing_commit, project_repo, issue_number)
ApplySearchCorrespondingRawBug ==
    /\ IsPending("_search_corresponding_raw_bug")
    /\ lastOp' = AppliedFilter("_search_corresponding_raw_bug", lastOp.arg,
                     SearchCorrespondingRawBug(lastOp.arg[1], commits, lastOp.arg[2]))
    /\ UNCHANGED <<commits, head, tracker, cache, provider>>

\* _search_corresponding_pygit_bug(closing_commit, project_repo, issue_number)
ApplySearchCorrespondingPygitBug ==
    /\ IsPending("_search_corresponding_pygit_bug")
    /\ lastOp' = AppliedFilter("_search_corresponding_pygit_bug", lastOp.arg,
                     SearchCorrespondingPygitBug(lastOp.arg[1], commits, lastOp.arg[2]))
    /\ UNCHANGED <<commits, head, tracker, cache, provider>>

\* find_all_raw_bugs.accept_all_issue_rawbugs(issue_event)
ApplyAcceptAllIssueRawbugs ==
    /\ IsPending("accept_all_issue_rawbugs")
    /\ lastOp' = AppliedFilter("accept_all_issue_rawbugs", lastOp.arg,
                     AcceptAllIssueRawbugs(lastOp.arg))
    /\ UNCHANGED <<commits, head, tracker, cache, provider>>

\* find_all_raw_bugs.accept_all_commit_rawbugs(commit)
ApplyAcceptAllCommitRawbugs ==
    /\ IsPending("accept_all_commit_rawbugs")
    /\ lastOp' = AppliedFilter("accept_all_commit_rawbugs", lastOp.arg,
                     AcceptAllCommitRawbugs(lastOp.arg))
    /\ UNCHANGED <<commits, head, tracker, cache, provider>>

\* the loop of accept_issue_pybug_with_certain_introduction over the
\* introducing commits of a bug
ApplyPybugIntroducedByHex ==
    /\ IsPending("accept_issue_pybug_with_certain_introduction")
    /\ lastOp' = AppliedFilter("accept_issue_pybug_with_certain_introduction", lastOp.arg,
                     PybugIntroducedByHex(Return(lastOp.arg[1]), lastOp.arg[2]))
    /\ UNCHANGED <<commits, head, tracker, cache, provider>>

\* the loop of accept_commit_pybug_with_certain_introduction over the
\* introducing commits of a bug
ApplyPybugIntroducedByCommit ==
    /\ IsPending("accept_commit_pybug_with_certain_introduction")
    /\ lastOp' = AppliedFilter("accept_commit_pybug_with_certain_introduction", lastOp.arg,
                     PybugIntroducedByCommit(Return(lastOp.arg[1]), lastOp.arg[2]))
    /\ UNCHANGED <<commits, head, tracker, cache, provider>>

\* cache_file_name of _get_all_issue_events(project_name)
ApplyCacheFileName ==
    /\ IsPending("cache_file_name")
    /\ lastOp' = Applied("cache_file_name", lastOp.arg, NoError,
                          CacheFileName(lastOp.arg))
    /\ UNCHANGED <<commits, head, tracker, cache, provider>>

UnitNext ==
    \/ ApplyIntroducingCommitsAppend
    \/ ApplySearchCorrespondingRawBug
    \/ ApplySearchCorrespondingPygitBug
    \/ ApplyAcceptAllIssueRawbugs
    \/ ApplyAcceptAllCommitRawbugs
    \/ ApplyPybugIntroducedByHex
    \/ ApplyPybugIntroducedByCommit
    \/ ApplyCacheFileName
    \/ ApplyCreateProviderForProject
    \/ ApplyEq
    \/ ApplyHash
    \/ ApplySetAdd
    \/ ApplyHasClosedABug
    \/ ApplyIsClosingMessage

UnitSpec == UnitInit /\ [][UnitNext]_vars

(***************************************************************************)
(* Two queries of one project running concurrently.  _get_all_issue_events *)
(* takes no lock of its own: it calls get_cached_github_object_list once,  *)
(* and the cache serialises the population of an entry.  lastOp holds the  *)
(* position of each query, cache the entry and its writer.                 *)
(***************************************************************************)
Queries == {"q1", "q2"}
NoWriter == "none"

\* a query that has not called _get_all_issue_events yet
Idle == [pc |-> "start", events |-> <<>>, source |-> "none"]

\* the positions at which a query is populating the entry
Populating == {"fetching", "writing"}

\* the entry may be populated by everyone at once
MayPopulate_unlocked(c) == TRUE

\* the entry has no writer: a query may start to populate it
MayPopulate(c) == c.writer = NoWriter

ConcInit ==
    /\ commits = <<>>
    /\ head = 0
    /\ provider = NoProvider
    /\ tracker \in SeqsUpTo(EventUniverse, MaxEvents)
    /\ cache = [populated |-> FALSE, events |-> <<>>, writer |-> NoWriter]
    /\ lastOp = [q \in Queries |-> Idle]

\* get_cached_github_object_list: look the entry up
ConcLookup(q) ==
    /\ lastOp[q].pc = "start"
    /\ lastOp' = [lastOp EXCEPT ![q].pc = IF cache.populated THEN "reading" ELSE "waiting"]
    /\ UNCHANGED <<commits, head, tracker, cache, provider>>

\* on a miss: become the writer of the entry, unless it was populated meanwhile
ConcAcquire(q) ==
    /\ lastOp[q].pc = "waiting"
    /\ MayPopulate(cache)
    /\ IF cache.populated
       THEN /\ lastOp' = [lastOp EXCEPT ![q].pc = "reading"]
            /\ cache' = cache
       ELSE /\ lastOp' = [lastOp EXCEPT ![q].pc = "fetching"]
            /\ cache' = [cache EXCEPT !.writer = q]
    /\ UNCHANGED <<commits, head, tracker, provider>>

\* load_issue_events(github): the tracker answers or the fetch fails
ConcFetch(q) ==
    /\ lastOp[q].pc = "fetching"
    /\ \E avail \in BOOLEAN :
           IF avail
           THEN /\ lastOp' = [lastOp EXCEPT ![q] =
                                 [pc |-> "writing", events |-> tracker, source |-> "fetched"]]
                /\ cache' = cache
           ELSE /\ lastOp' = [lastOp EXCEPT ![q] =
                                 [pc |-> "done", events |-> <<>>, source |-> "failed"]]
                /\ cache' = [cache EXCEPT !.writer = NoWriter]
    /\ UNCHANGED <<commits, head, tracker, provider>>

\* store the fetched list in the entry
ConcWrite(q) ==
    /\ lastOp[q].pc = "writing"
    /\ cache' = [populated |-> TRUE, events |-> lastOp[q].events, writer |-> NoWriter]
    /\ lastOp' = [lastOp EXCEPT ![q].pc = "done"]
    /\ UNCHANGED <<commits, head, tracker, provider>>

\* read the populated entry
ConcRead(q) ==
    /\ lastOp[q].pc = "reading"
    /\ lastOp' = [lastOp EXCEPT ![q] =
                     [pc |-> "done", events |-> cache.events, source |-> "hit"]]
    /\ UNCHANGED <<commits, head, tracker, cache, provider>>

\* if issue_events: return issue_events; return []  -- and the next query
ConcReturn(q) ==
    /\ lastOp[q].pc = "done"
    /\ lastOp' = [lastOp EXCEPT ![q] = Idle]
    /\ UNCHANGED <<commits, head, tracker, cache, provider>>

ConcNext ==
    \/ \E q \in Queries : ConcLookup(q)
    \/ \E q \in Queries : ConcAcquire(q)
    \/ \E q \in Queries : ConcFetch(q)
    \/ \E q \in Queries : ConcWrite(q)
    \/ \E q \in Queries : ConcRead(q)
    \/ \E q \in Queries : ConcReturn(q)

ConcSpec == ConcInit /\ [][ConcNext]_vars

(***************************************************************************)
(* What the queries are expected to return                                 *)
(***************************************************************************)
\* the first line of a message: the text before the first line break
FirstLine(msg) ==
    IF StrIndex(msg, NL) < 0 THEN msg ELSE StrPrefix(msg, StrIndex(msg, NL))

\* the commits reachable from HEAD whose first line holds a fix keyword
ClosingCommits ==
    {i \in Members(Walk(commits, head)) : ReSearchFix(FirstLine(commits[i].message))}

\* the issue events the last query was given
SeenEvents ==
    IF lastOp.source \in {"hit", "fetched"} THEN Members(cache.events) ELSE {}

\* the bug-closing events among them
ClosingEvents == {ev \in SeenEvents : HasClosedABug(ev)}

HistoryRawBugs == {RawBug(Hex(i), <<>>, NoneInt) : i \in ClosingCommits}
HistoryPygitBugs == {PygitBug([hex |-> Hex(i)], <<>>, NoneInt) : i \in ClosingCommits}
TrackerRawBugs == {RawBug(ev.commit_id, <<>>, <<ev.number>>) : ev \in ClosingEvents}
TrackerPygitBugs ==
    {PygitBug([hex |-> ev.commit_id], <<>>, <<ev.number>>) : ev \in ClosingEvents}

\* the last query returned exactly the set expected
Returned(expected) == lastOp.err = NoError /\ Members(lastOp.bugs) = expected

IsBugProvider == provider.cls = "BugProvider"
HasKey == TruthyName(provider.github_project_name)

(***************************************************************************)
(* Claims                                                                  *)
(***************************************************************************)
\* C1: BugProvider.find_all_raw_bugs() and find_all_pygit_bugs() return the
\* union of the tracker-sourced and the history-sourced bugs; without a
\* GitHub project name, exactly the history-sourced bugs.
C1_ProviderFindAllIsUnion ==
    /\ (IsBugProvider /\ lastOp.op = "find_all_raw_bugs") =>
           Returned((IF HasKey THEN TrackerRawBugs ELSE {}) \cup HistoryRawBugs)
    /\ (IsBugProvider /\ lastOp.op = "find_all_pygit_bugs") =>
           Returned((IF HasKey THEN TrackerPygitBugs ELSE {}) \cup HistoryPygitBugs)

\* C2: for a project whose only bug has fixing identifier f,
\* BugProvider.find_raw_bug_by_fix(f) returns exactly that record and
\* find_raw_bug_by_fix(g), g # f, returns the empty set.
C2_ProviderByFixOfOnlyBug ==
    LET all == (IF HasKey THEN TrackerRawBugs ELSE {}) \cup HistoryRawBugs
    IN (IsBugProvider /\ lastOp.op = "find_raw_bug_by_fix" /\ Cardinality(all) = 1) =>
           Returned({b \in all : b.fixing_commit = lastOp.arg})

\* C3: find_all_raw_bugs(p) (or find_all_pygit_bugs(p)) called twice in
\* succession, nothing changing in between, yields two sets with the same
\* members.
C3_FindAllTwiceEqualSets ==
    [][(/\ lastOp.caller = "bug" /\ lastOp'.caller = "bug"
        /\ lastOp.op \in {"find_all_raw_bugs", "find_all_pygit_bugs"}
        /\ lastOp'.op = lastOp.op
        /\ ~(lastOp.source = "failed" /\ lastOp'.source = "fetched"))
       => (/\ lastOp.err = NoError
           /\ lastOp'.err = NoError
           /\ Members(lastOp'.bugs) = Members(lastOp.bugs))]_vars

\* C4: a fixing identifier c found through a bug-closing event (issue n) and
\* through its commit message gives two entries in find_all_raw_bugs: one
\* with issue id n, one with issue id None.
C4_BothSourcesBothRecords ==
    (lastOp.caller = "bug" /\ lastOp.op = "find_all_raw_bugs") =>
        \A ev \in ClosingEvents, i \in ClosingCommits :
            (ev.commit_id = Hex(i)) =>
                /\ lastOp.err = NoError
                /\ RawBug(Hex(i), <<>>, <<ev.number>>) \in Members(lastOp.bugs)
                /\ RawBug(Hex(i), <<>>, NoneInt) \in Members(lastOp.bugs)

\* the positions of the returned set that hold a bug equal to b
Holding(b) == {k \in 1..Len(lastOp.bugs) : BugEq(lastOp.bugs[k], b)}

\* two events of the cached list carry the same commit id and issue number
TwiceClosed(ev) ==
    /\ ev \in ClosingEvents
    /\ Truthy(ev.commit_id)
    /\ \E k, l \in 1..Len(cache.events) :
           k # l /\ cache.events[k] = ev /\ cache.events[l] = ev

\* C5: sources producing equal Bug records give exactly one record in the
\* set find_all_raw_bugs / find_all_pygit_bugs returns; no returned set holds
\* two equal Bug values.
C5_EqualRecordsOnce ==
    /\ (lastOp.caller = "bug" /\ lastOp.op = "find_all_raw_bugs") =>
           \A ev \in SeenEvents :
               TwiceClosed(ev) =>
                   /\ lastOp.err = NoError
                   /\ Cardinality(Holding(RawBug(ev.commit_id, <<>>, <<ev.number>>))) = 1
    /\ (lastOp.caller = "bug" /\ lastOp.op = "find_all_pygit_bugs") =>
           \A ev \in SeenEvents :
               (TwiceClosed(ev) /\ RevparseSingle(commits, ev.commit_id).err = NoError) =>
                   /\ lastOp.err = NoError
                   /\ Cardinality(Holding(
                          PygitBug([hex |-> ev.commit_id], <<>>, <<ev.number>>))) = 1
    /\ \A k, l \in 1..Len(lastOp.bugs) :
           BugEq(lastOp.bugs[k], lastOp.bugs[l]) => k = l

\* C6: find_raw_bug_by_fix(p, f) is the subset of find_all_raw_bugs(p) with
\* fixing_commit f; find_pygit_bug_by_fix(p, f) is the subset of
\* find_all_pygit_bugs(p) whose fixing commit has identifier f.
C6_ByFixIsSubsetOfAll ==
    [][/\ (lastOp'.caller = "bug" /\ lastOp'.op = "find_raw_bug_by_fix") =>
              LET all == find_all_raw_bugs(lastOp'.source # "failed")
              IN /\ all.err = NoError
                 /\ lastOp'.err = NoError
                 /\ Members(lastOp'.bugs) =
                        {b \in Members(all.bugs) : b.fixing_commit = lastOp'.arg}
       /\ (lastOp'.caller = "bug" /\ lastOp'.op = "find_pygit_bug_by_fix") =>
              LET all == find_all_pygit_bugs(lastOp'.source # "failed")
              IN /\ all.err = NoError
                 /\ lastOp'.err = NoError
                 /\ Members(lastOp'.bugs) =
                        {b \in Members(all.bugs) : b.fixing_commit.hex = lastOp'.arg}]_vars

\* C7: find_raw_bug_by_introduction(p, i) is the subset of
\* find_all_raw_bugs(p) whose introducing_commits contains i.
C7_ByIntroductionIsSubsetOfAll ==
    [][(lastOp'.caller = "bug" /\ lastOp'.op = "find_raw_bug_by_introduction") =>
           LET all == find_all_raw_bugs(lastOp'.source # "failed")
           IN /\ all.err = NoError
              /\ lastOp'.err = NoError
              /\ Members(lastOp'.bugs) =
                     {b \in Members(all.bugs) :
                         \E k \in 1..Len(b.introducing_commits) :
                             b.introducing_commits[k] = lastOp'.arg}]_vars

\* C8: the null provider (BugDefaultProvider) answers each of its six
\* queries with the empty set, whatever the argument and the state of the
\* repository, the tracker and the cache.
C8_DefaultProviderEmpty ==
    (IsDefault(provider) /\ lastOp.op # "none") => Returned({})

\* the default provider was asked for all bugs of a project whose history
\* and tracker both hold a fix
C8_Witness ==
    /\ IsDefault(provider)
    /\ lastOp.op = "find_all_raw_bugs"
    /\ Returned({})
    /\ ClosingCommits # {}
    /\ \E k \in 1..Len(tracker) : IssueGuard(tracker[k])

\* C9: a provider without a GitHub project name never fetches the tracker
\* and never reads issue events from the cache, whatever the query.
C9_NoKeyNoTracker ==
    (IsBugProvider /\ ~HasKey) =>
        /\ lastOp.source = "none"
        /\ ~cache.populated

\* a provider without a GitHub project name answered a by-fix query while
\* the tracker held a bug-closing event
C9_Witness ==
    /\ IsBugProvider /\ ~HasKey
    /\ lastOp.op = "find_pygit_bug_by_fix"
    /\ lastOp.source = "none"
    /\ \E k \in 1..Len(tracker) : IssueGuard(tracker[k])

\* the remote has the form https://github.com/<owner>/<repo>.git
OwnerRepoForm(url) ==
    /\ Len(url) = 5
    /\ url[1] = GithubPrefix
    /\ url[3] = "/"
    /\ url[5] = DotGit

\* C10: for a remote https://github.com/<owner>/<repo>.git the provider's
\* remote project key is "<owner>/<repo>"; for any other remote the provider
\* has no key and returns only the history-sourced bugs.
C10_KeyFromRemote ==
    IsBugProvider =>
        LET url == ProjectNamed(provider.project).remote
        IN IF OwnerRepoForm(url)
           THEN provider.github_project_name = Name(<<url[2], "/", url[4]>>)
           ELSE /\ provider.github_project_name = NoName
                /\ (lastOp.op = "find_all_raw_bugs") => Returned(HistoryRawBugs)
                /\ (lastOp.op = "find_all_pygit_bugs") => Returned(HistoryPygitBugs)

\* C11: BugProvider.create_provider_for_project never raises: for a project
\* whose primary source is not git-backed it returns no provider, for every
\* git-backed project it returns a provider.
C11_CreateProviderNeverRaises ==
    (lastOp.op = "create_provider_for_project") =>
        LET project == ProjectNamed(lastOp.arg)
        IN /\ lastOp.err = NoError
           /\ project.git =>
                  (provider.cls = "BugProvider" /\ provider.project = project.NAME)
           /\ ~project.git => provider = NoProvider

\* a project whose primary source is not git-backed was given no provider
C11_Witness ==
    /\ lastOp.op = "create_provider_for_project"
    /\ ~ProjectNamed(lastOp.arg).git
    /\ lastOp.err = NoError
    /\ provider = NoProvider

\* the two lists hold the same elements at the same positions
SameSequence(s, t) ==
    /\ Len(s) = Len(t)
    /\ \A k \in 1..Len(s) : s[k] = t[k]

\* C12: two Bug records of the same representation are equal iff fixing
\* change, introducing changes (as an ordered sequence) and issue id are all
\* equal; a PygitBug is never equal to a RawBug.
C12_EqIffFieldsEqual ==
    (lastOp.op = "__eq__") =>
        LET a == lastOp.arg[1]
            b == lastOp.arg[2]
        IN /\ lastOp.err = NoError
           /\ (a.cls = b.cls) =>
                  (lastOp.val <=>
                      (/\ a.fixing_commit = b.fixing_commit
                       /\ SameSequence(a.introducing_commits, b.introducing_commits)
                       /\ a.issue_id = b.issue_id))
           /\ (a.cls # b.cls) => ~lastOp.val

\* two records with the same introducing changes in a different order were
\* compared and found distinct
C12_Witness ==
    /\ lastOp.op = "__eq__"
    /\ lastOp.arg[1].cls = lastOp.arg[2].cls
    /\ lastOp.arg[1].fixing_commit = lastOp.arg[2].fixing_commit
    /\ lastOp.arg[1].issue_id = lastOp.arg[2].issue_id
    /\ Len(lastOp.arg[1].introducing_commits) = 2
    /\ Len(lastOp.arg[2].introducing_commits) = 2
    /\ lastOp.arg[1].introducing_commits[1] = lastOp.arg[2].introducing_commits[2]
    /\ lastOp.arg[1].introducing_commits[2] = lastOp.arg[2].introducing_commits[1]
    /\ lastOp.arg[1].introducing_commits[1] # lastOp.arg[1].introducing_commits[2]
    /\ ~lastOp.val

\* C13: hashing a Bug value always yields a value without error, so every
\* Bug can be inserted into a set.
C13_HashAlwaysSucceeds ==
    /\ (lastOp.op = "__hash__") => lastOp.err = NoError
    /\ (lastOp.op = "set.add") => (lastOp.err = NoError /\ lastOp.val)

\* C14: _has_closed_a_bug(event) is true iff the event's type is "closed",
\* the event has a commit id, and a label of the issue is named exactly "bug".
C14_HasClosedABugIff ==
    (lastOp.op = "_has_closed_a_bug") =>
        (lastOp.val <=>
            (/\ lastOp.arg.event = "closed"
             /\ lastOp.arg.commit_id # NoneStr
             /\ "bug" \in Members(lastOp.arg.labels)))

\* a closed event with a commit id whose only label is "Bug" was rejected
C14_Witness ==
    /\ lastOp.op = "_has_closed_a_bug"
    /\ lastOp.arg.event = "closed"
    /\ lastOp.arg.commit_id = "c1"
    /\ lastOp.arg.labels = <<"Bug">>
    /\ ~lastOp.val

\* the text holds "fix" in any mix of upper and lower case
ContainsFix(s) ==
    \E i \in 1..(Len(s) - 2) :
        Lower(s[i]) = "f" /\ Lower(s[i + 1]) = "i" /\ Lower(s[i + 2]) = "x"

HasLineBreak(msg) == \E i \in 1..Len(msg) : msg[i] = NL

\* C15: for a commit message with a line break, _is_closing_message is true
\* iff the text before the first line break contains "fix" (any case, no
\* word boundary); the text after it has no influence.
C15_FirstLineDecides ==
    (lastOp.op = "_is_closing_message" /\ HasLineBreak(lastOp.arg)) =>
        /\ lastOp.err = NoError
        /\ lastOp.val <=> ContainsFix(FirstLine(lastOp.arg))

\* a message holding "fix" only after its first line break was rejected
C15_Witness ==
    /\ lastOp.op = "_is_closing_message"
    /\ HasLineBreak(lastOp.arg)
    /\ ContainsFix(lastOp.arg)
    /\ ~ContainsFix(FirstLine(lastOp.arg))
    /\ lastOp.err = NoError
    /\ ~lastOp.val

\* C16: for a commit message without a line break (the empty one included)
\* _is_closing_message returns a boolean without raising, the whole message
\* being the first line.
C16_NoLineBreakNoRaise ==
    (lastOp.op = "_is_closing_message" /\ ~HasLineBreak(lastOp.arg)) =>
        /\ lastOp.err = NoError
        /\ lastOp.val <=> ContainsFix(lastOp.arg)

\* a bug-closing event the last query was given names no commit of the
\* repository
UnknownIdSeen ==
    \E ev \in ClosingEvents : RevparseSingle(commits, ev.commit_id).err # NoError

\* the bugs of the bug-closing events whose commit id names a commit
ResolvableTrackerPygitBugs ==
    {PygitBug([hex |-> ev.commit_id], <<>>, <<ev.number>>) :
        ev \in {e \in ClosingEvents : RevparseSingle(commits, e.commit_id).err = NoError}}

\* C17: an event (or commit) whose identifier does not exist in the
\* repository contributes no Bug and does not make the query fail:
\* find_all_pygit_bugs and the by-fix / by-introduction variants do not end
\* in the resolution error and return the bugs of all other items.
C17_UnknownIdConfined ==
    (lastOp.caller = "bug" /\ UnknownIdSeen) =>
        /\ (lastOp.op = "find_all_pygit_bugs") =>
               /\ lastOp.err # "KeyError"
               /\ (lastOp.err = NoError) =>
                      Members(lastOp.bugs) = ResolvableTrackerPygitBugs \cup HistoryPygitBugs
        /\ (lastOp.op = "find_pygit_bug_by_fix") =>
               /\ lastOp.err # "KeyError"
               /\ (lastOp.err = NoError) =>
                      Members(lastOp.bugs) =
                          {b \in ResolvableTrackerPygitBugs \cup HistoryPygitBugs :
                              b.fixing_commit.hex = lastOp.arg}
        /\ (lastOp.op = "find_pygit_bug_by_introduction") =>
               /\ lastOp.err # "KeyError"
               /\ (lastOp.err = NoError) => Members(lastOp.bugs) = {}

\* the last query got no issue events: the fetch failed or the list is empty
NoEventsSeen ==
    \/ lastOp.source = "failed"
    \/ lastOp.source \in {"hit", "fetched"} /\ cache.events = <<>>

\* C18: when fetching the issue events fails or yields nothing, the find-all
\* query does not fail and returns exactly the history-sourced bugs.
C18_FetchFailureEmptyStream ==
    (lastOp.caller = "bug" /\ NoEventsSeen) =>
        /\ (lastOp.op = "find_all_raw_bugs") => Returned(HistoryRawBugs)
        /\ (lastOp.op = "find_all_pygit_bugs") => Returned(HistoryPygitBugs)

\* the step is a query of the module bug running to its end
QueryStep == lastOp'.caller = "bug" /\ lastOp'.op # "none" /\ lastOp'.mutation = "none"

C20_ResultImmutable ==
    [][/\ (lastOp.op # "none" /\ lastOp.mutation = "none" /\ lastOp'.mutation # "none") =>
              /\ lastOp'.mutation = "AttributeError"
              /\ lastOp'.bugs = lastOp.bugs
       /\ (/\ lastOp.mutation # "none"
           /\ QueryStep
           /\ lastOp'.op = lastOp.op
           /\ lastOp'.arg = lastOp.arg
           /\ ~(lastOp.source = "failed" /\ lastOp'.source = "fetched")) =>
              /\ lastOp'.err = NoError
              /\ lastOp'.bugs = lastOp.bugs]_vars

\* the caller of find_all_raw_bugs tried to add to the returned set and was
\* refused
C20_Witness ==
    /\ lastOp.caller = "bug"
    /\ lastOp.op = "find_all_raw_bugs"
    /\ lastOp.kind = "frozenset"
    /\ lastOp.mutation = "AttributeError"

\* C21: a Bug value is immutable after construction: appending to the
\* sequence obtained from its introducing_commits accessor changes neither
\* its fixing change, its introducing changes nor its issue id.
C21_BugImmutable ==
    (lastOp.op = "introducing_commits.append") =>
        /\ lastOp.val.fixing_commit = lastOp.arg[1].fixing_commit
        /\ lastOp.val.introducing_commits = lastOp.arg[1].introducing_commits
        /\ lastOp.val.issue_id = lastOp.arg[1].issue_id

\* C24: the resolver attaches the issue number verbatim: both resolvers
\* called with issue number n (0 included) return a Bug with issue_id = n,
\* and called without one return a Bug with issue_id = None; the tracker
\* filter hands the event's number to the resolver and the history filter
\* hands none.
C24_IssueNumberVerbatim ==
    /\ (lastOp.op = "_search_corresponding_raw_bug") =>
           /\ lastOp.err = NoError
           /\ Len(lastOp.val) = 1
           /\ lastOp.val[1].issue_id = lastOp.arg[2]
    /\ (lastOp.op = "_search_corresponding_pygit_bug") =>
           /\ (RevparseSingle(commits, lastOp.arg[1]).err = NoError) =>
                  (lastOp.err = NoError /\ Len(lastOp.val) = 1)
           /\ (Len(lastOp.val) = 1) => lastOp.val[1].issue_id = lastOp.arg[2]
    /\ (lastOp.op = "accept_all_issue_rawbugs" /\ Len(lastOp.val) = 1) =>
           lastOp.val[1].issue_id = <<lastOp.arg.number>>
    /\ (lastOp.op = "accept_all_commit_rawbugs" /\ Len(lastOp.val) = 1) =>
           lastOp.val[1].issue_id = NoneInt

\* the tracker filter resolved a bug-closing event of issue number 0 to a bug
\* with issue id 0
C24_Witness ==
    /\ lastOp.op = "accept_all_issue_rawbugs"
    /\ lastOp.arg.number = 0
    /\ Len(lastOp.val) = 1
    /\ lastOp.val[1].issue_id = <<0>>

\* C25: the fixing change of every RawBug the resolver or the tracker filter
\* returns denotes a commit of the project repository: an identifier that
\* does not denote a commit never appears as a fixing change.
C25_FixingChangeResolved ==
    (/\ lastOp.op \in {"_search_corresponding_raw_bug", "accept_all_issue_rawbugs"}
     /\ Len(lastOp.val) = 1) =>
        RevparseSingle(commits, lastOp.val[1].fixing_commit).err = NoError

\* C26: the tracker filter and the history filter of
\* find_pygit_bug_by_introduction apply the same membership test: a bug with
\* introducing commits is returned iff one of them has the identifier asked
\* for.
C26_SameMembershipTest ==
    (lastOp.op \in {"accept_issue_pybug_with_certain_introduction",
                    "accept_commit_pybug_with_certain_introduction"}) =>
        ((Len(lastOp.val) = 1) <=>
             \E k \in 1..Len(lastOp.arg[1].introducing_commits) :
                 lastOp.arg[1].introducing_commits[k].hex = lastOp.arg[2])

\* C27: the cache entry of a project's issue events is keyed by the project
\* name with every "/" replaced by "_", followed by "_issues_events"
\* ("owner/repo" gives "owner_repo_issues_events").
C27_CacheKey ==
    (lastOp.op = "cache_file_name") =>
        lastOp.val = StrReplace(lastOp.arg, "/", "_") \o <<"_issues_events">>

\* the last step recorded is a find-all query of module bug
FindAllDone(op) ==
    lastOp.caller = "bug" /\ lastOp.op = op /\ lastOp.mutation = "none"

\* C22: every issue event that _has_closed_a_bug accepts contributes to the
\* find-all result a Bug whose fixing change is the event's commit id: a
\* find-all query that returns a result has dropped no such event, the event
\* with the empty string for a commit id included.
C22_NoEventDropped ==
    /\ (FindAllDone("find_all_raw_bugs") /\ lastOp.err = NoError) =>
           \A ev \in ClosingEvents :
               \E b \in Members(lastOp.bugs) : b.fixing_commit = ev.commit_id
    /\ (FindAllDone("find_all_pygit_bugs") /\ lastOp.err = NoError) =>
           \A ev \in ClosingEvents :
               \E b \in Members(lastOp.bugs) : b.fixing_commit.hex = ev.commit_id

\* the tracker pass of the last query handed no event to the resolver
NoEventResolved == \A ev \in SeenEvents : ~IssueGuard(ev)

\* C23: the history-sourced part of the find-all result is exactly one Bug
\* per commit reachable from HEAD whose message is a closing message: when
\* the tracker pass contributes nothing the query returns, and the bugs
\* without an issue id it returns are exactly those of the closing commits.
C23_HistoryPart ==
    /\ FindAllDone("find_all_raw_bugs") =>
           /\ NoEventResolved => lastOp.err = NoError
           /\ (lastOp.err = NoError) =>
                  {b \in Members(lastOp.bugs) : b.issue_id = NoneInt} = HistoryRawBugs
    /\ FindAllDone("find_all_pygit_bugs") =>
           /\ NoEventResolved => lastOp.err = NoError
           /\ (lastOp.err = NoError) =>
                  {b \in Members(lastOp.bugs) : b.issue_id = NoneInt} = HistoryPygitBugs

\* C29: the search for introducing commits being a stub,
\* find_raw_bug_by_introduction and find_pygit_bug_by_introduction return
\* the empty set for every project state and every identifier.
C29_ByIntroductionEmpty ==
    (/\ lastOp.caller = "bug"
     /\ lastOp.op \in {"find_raw_bug_by_introduction", "find_pygit_bug_by_introduction"}
     /\ lastOp.mutation = "none") =>
        Returned({})

\* the triple (identifier of the fixing commit, identifiers of the
\* introducing commits, issue id) of a PygitBug
ToTriple(pybug) ==
    RawBug(pybug.fixing_commit.hex,
           [k \in 1..Len(pybug.introducing_commits) |-> pybug.introducing_commits[k].hex],
           pybug.issue_id)

\* find_all_raw_bugs on the project state find_all_pygit_bugs has just seen
RawTwin == find_all_raw_bugs(lastOp.source # "failed")

\* C30: the two representations describe the same bugs: find_all_pygit_bugs
\* fails iff find_all_raw_bugs fails on the same project state, and when
\* they return, the triples of the PygitBugs are exactly the RawBugs.
C30_SameBugs ==
    FindAllDone("find_all_pygit_bugs") =>
        /\ (lastOp.err = NoError) <=> (RawTwin.err = NoError)
        /\ (lastOp.err = NoError) =>
               {ToTriple(b) : b \in Members(lastOp.bugs)} = Members(RawTwin.bugs)

\* find_all_pygit_bugs failed to resolve the commit id of an event, and
\* find_all_raw_bugs fails on the same state, with another exception
C30_Witness ==
    /\ FindAllDone("find_all_pygit_bugs")
    /\ lastOp.err = "KeyError"
    /\ RawTwin.err = "TypeError"

====
